---- MODULE Spec2Model ----
(***************************************************************************)
(* State machine of the MyChatBot component                                *)
(* (src/src/Pages/chat-bot/chat-bot.tsx).                                  *)
(*                                                                         *)
(* The React state cells and refs are the variables.  Every event handler  *)
(* is one action; the asynchronous body of handleSubmit is cut at its      *)
(* await points, so one request advances by the steps "the stream promise  *)
(* resolves", "a chunk arrives", "the stream ends" and "a fault is         *)
(* raised".  All setState calls made in one synchronous run are applied    *)
(* together, as React does before the next event is delivered.             *)
(*                                                                         *)
(* Text is a sequence of characters (one-character strings, or one token   *)
(* standing for a fixed literal), so that trim and += are computed.        *)
(***************************************************************************)
EXTENDS Integers, Sequences, FiniteSets, TLC

VARIABLES
    messages,     \* useState<Message[]>            (line 12)
    inputValue,   \* useState<string>("")           (line 19)
    isLoading,    \* useState<boolean>(false)       (line 20)
    apiKey,       \* useState<string>("")           (line 21)
    apiKeyInput,  \* useState<string>("")           (line 22)
    isApiKeySet,  \* useState<boolean>(false)       (line 23)
    genAIRef,     \* useRef<any>(null)              (line 25)
    reqs,         \* the running/finished invocations of handleSubmit's async body
    now,          \* the value Date.now() returned last; its readings never decrease
    mounted       \* the component is in the tree

vars == <<messages, inputValue, isLoading, apiKey, apiKeyInput, isApiKeySet,
          genAIRef, reqs, now, mounted>>

----------------------------------------------------------------------------
(* Bounds of the model *)

MaxSubmits == 2      \* accepted submissions in one behaviour
MaxChunks  == 2      \* chunks the provider delivers in one behaviour
MaxClock   == 1      \* Date.now() reads values in 0..MaxClock

(* Input alphabets *)

WhiteSpace == {" ", "\t"}

DraftValues == {<<>>, <<" ", "\t">>, <<" ", "h", "\t">>}

KeyValues == {<<"g">>, <<"b">>}

InvalidKeys == {<<>>, <<"b">>}

Fragments == {<<"x">>, <<"y">>}

----------------------------------------------------------------------------
(* Literals of the source *)

WelcomeText ==
    <<"Hello, I am an AI assistant powered by Gemini. How can I help you today?">>

ErrorText ==
    <<"Sorry, I encountered an error while generating a response. Please try again or check your API key.">>

NoHandle == [set |-> FALSE, key |-> <<>>]

WelcomeMessage == [id |-> <<"welcome">>, text |-> WelcomeText, sender |-> "bot"]

----------------------------------------------------------------------------
(* Pure helpers *)

\* String.prototype.trim: strip white space at both ends.
RECURSIVE TrimStart(_)
TrimStart(s) ==
    IF s # <<>> /\ Head(s) \in WhiteSpace THEN TrimStart(Tail(s)) ELSE s

RECURSIVE TrimEnd(_)
TrimEnd(s) ==
    IF s # <<>> /\ s[Len(s)] \in WhiteSpace
    THEN TrimEnd(SubSeq(s, 1, Len(s) - 1))
    ELSE s

\* Variant: the draft is tested without trimming.
trim_Absent(s) == s

trim(s) == TrimEnd(TrimStart(s))

\* `user-${Date.now()}` and `bot-${Date.now()}`
userId(t) == <<"user", t>>

botId(t) == <<"bot", t>>

\* new GoogleGenerativeAI(key) throws for the keys the provider rejects.
CtorThrows(key) == key \in InvalidKeys

NewClient(key) == [set |-> TRUE, key |-> key]

\* msg.isStreaming read as a condition (undefined is falsy).
IsStreaming(msg) == "isStreaming" \in DOMAIN msg /\ msg.isStreaming

\* Variant: the chunk update also switches the cursor on.
WithText_StreamingOn(msg, t) ==
    [id |-> msg.id, text |-> t, sender |-> msg.sender, isStreaming |-> TRUE]

\* { ...msg, text: t }
WithText(msg, t) ==
    IF "isStreaming" \in DOMAIN msg
    THEN [id |-> msg.id, text |-> t, sender |-> msg.sender,
          isStreaming |-> msg.isStreaming]
    ELSE [id |-> msg.id, text |-> t, sender |-> msg.sender]

\* { ...msg, isStreaming: false }
WithStreamingOff(msg) ==
    [id |-> msg.id, text |-> msg.text, sender |-> msg.sender,
     isStreaming |-> FALSE]

\* Variant: the error text is added to the partial text.
WithError_KeepsPartial(msg) ==
    [id |-> msg.id, text |-> msg.text \o ErrorText, sender |-> msg.sender,
     isStreaming |-> FALSE]

\* { ...msg, text: <error literal>, isStreaming: false }
WithError(msg) ==
    [id |-> msg.id, text |-> ErrorText, sender |-> msg.sender,
     isStreaming |-> FALSE]

\* prevMessages.map(msg => msg.id === botMessageId ? {...msg, text: fullText} : msg)
UpdateText(prev, botMessageId, fullText) ==
    [i \in 1..Len(prev) |->
        IF prev[i].id = botMessageId THEN WithText(prev[i], fullText) ELSE prev[i]]

\* prevMessages.map(msg => msg.id === botMessageId ? {...msg, isStreaming: false} : msg)
MarkDone(prev, botMessageId) ==
    [i \in 1..Len(prev) |->
        IF prev[i].id = botMessageId THEN WithStreamingOff(prev[i]) ELSE prev[i]]

\* prevMessages.map(msg => msg.id === botMessageId ? {...msg, text: ERR, isStreaming: false} : msg)
MarkError(prev, botMessageId) ==
    [i \in 1..Len(prev) |->
        IF prev[i].id = botMessageId THEN WithError(prev[i]) ELSE prev[i]]

\* Chunks delivered so far, over all requests.
RECURSIVE Delivered(_)
Delivered(rs) ==
    IF rs = <<>> THEN 0 ELSE Len(Head(rs).chunks) + Delivered(Tail(rs))

\* Variant: only the placeholder is appended.
AppendPair_OmitsUser(prev, userMessage, botMessage) == prev \o <<botMessage>>

\* Variant: the pair is put in front of the transcript.
AppendPair_Prepends(prev, userMessage, botMessage) ==
    <<userMessage, botMessage>> \o prev

\* Variant: the placeholder is put before the user message.
AppendPair_BotFirst(prev, userMessage, botMessage) ==
    prev \o <<botMessage, userMessage>>

\* [...prevMessages, userMessage, botMessage]
AppendPair(prev, userMessage, botMessage) == prev \o <<userMessage, botMessage>>

----------------------------------------------------------------------------
Init ==
    /\ messages = <<WelcomeMessage>>
    /\ inputValue = <<>>
    /\ isLoading = FALSE
    /\ apiKey = <<>>
    /\ apiKeyInput = <<>>
    /\ isApiKeySet = FALSE
    /\ genAIRef = NoHandle
    /\ reqs = <<>>
    /\ now = 0
    /\ mounted = TRUE

----------------------------------------------------------------------------
(* The credential form (rendered while !isApiKeySet, lines 255-289) *)

\* onChange of the key field (line 274)
setApiKeyInput(v) ==
    /\ mounted /\ ~isApiKeySet
    /\ UNCHANGED mounted
    /\ apiKeyInput' = v
    /\ UNCHANGED <<messages, inputValue, isLoading, apiKey, isApiKeySet,
                   genAIRef, reqs, now>>

\* Variant: the client is not kept in the ref.
handleApiKeySubmit_DropsClient ==
    /\ mounted /\ ~isApiKeySet
    /\ UNCHANGED mounted
    /\ apiKey' = apiKeyInput
    /\ isApiKeySet' = ~CtorThrows(apiKeyInput)
    /\ UNCHANGED <<messages, inputValue, isLoading, apiKeyInput, genAIRef,
                   reqs, now>>

\* Variant: the status is set before the client is constructed.
handleApiKeySubmit_FlagBeforeTry ==
    /\ mounted /\ ~isApiKeySet
    /\ UNCHANGED mounted
    /\ apiKey' = apiKeyInput
    /\ isApiKeySet' = TRUE
    /\ genAIRef' = IF CtorThrows(apiKeyInput) THEN genAIRef
                   ELSE NewClient(apiKeyInput)
    /\ UNCHANGED <<messages, inputValue, isLoading, apiKeyInput, reqs, now>>

\* handleApiKeySubmit (lines 33-45)
handleApiKeySubmit ==
    /\ mounted /\ ~isApiKeySet
    /\ UNCHANGED mounted
    /\ apiKey' = apiKeyInput                                   \* line 35
    /\ IF CtorThrows(apiKeyInput)
       THEN /\ UNCHANGED <<genAIRef, isApiKeySet>>             \* lines 39-44
       ELSE /\ genAIRef' = NewClient(apiKeyInput)              \* line 37
            /\ isApiKeySet' = TRUE                             \* line 38
    /\ UNCHANGED <<messages, inputValue, isLoading, apiKeyInput, reqs, now>>

----------------------------------------------------------------------------
(* The chat form (rendered while isApiKeySet, lines 290-326).  The          *)
(* disabled attribute of its controls keeps the user agent from starting   *)
(* an interaction; the handlers themselves are reached by every change or  *)
(* submit event delivered to the form.                                     *)

\* handleInputChange (lines 48-50)
handleInputChange(v) ==
    /\ mounted /\ isApiKeySet
    /\ UNCHANGED mounted
    /\ inputValue' = v
    /\ UNCHANGED <<messages, isLoading, apiKey, apiKeyInput, isApiKeySet,
                   genAIRef, reqs, now>>

\* The request a run of handleSubmit keeps in its closure.
NewRequest(botMessageId, text, idx) ==
    [botMessageId |-> botMessageId,   \* line 65
     prompt       |-> text,           \* line 93
     fullText     |-> <<>>,           \* line 96
     chunks       |-> <<>>,           \* what result.stream has yielded
     pc           |-> "starting",     \* awaiting generateContentStream
     idx          |-> idx]            \* where its placeholder was appended

\* handleSubmit up to its first await (lines 53-92)
handleSubmit ==
    /\ mounted /\ isApiKeySet
    /\ UNCHANGED mounted
    /\ IF trim(inputValue) = <<>>
       THEN \* return at line 55
            UNCHANGED <<messages, inputValue, isLoading, apiKey, apiKeyInput,
                        isApiKeySet, genAIRef, reqs, now>>
       ELSE /\ Len(reqs) < MaxSubmits
            \* the two readings of Date.now(), lines 59 and 65
            /\ \E t1 \in now..MaxClock : \E t2 \in t1..MaxClock :
                 /\ now' = t2
                 /\ LET userMessage  == [id |-> userId(t1), text |-> inputValue,
                                         sender |-> "user"]
                        botMessageId == botId(t2)
                        botMessage   == [id |-> botMessageId, text |-> <<>>,
                                         sender |-> "bot", isStreaming |-> TRUE]
                        appended     == AppendPair(messages, userMessage, botMessage)
                    IN  /\ inputValue' = <<>>                  \* line 74
                        /\ IF ~genAIRef.set /\ CtorThrows(apiKey)
                           THEN \* line 79 throws: catch and finally run at once
                                /\ messages' = MarkError(appended, botMessageId)
                                /\ isLoading' = FALSE
                                /\ UNCHANGED <<genAIRef, reqs>>
                           ELSE /\ messages' = appended        \* line 73
                                /\ isLoading' = TRUE           \* line 75
                                /\ genAIRef' = IF genAIRef.set THEN genAIRef
                                               ELSE NewClient(apiKey)
                                /\ reqs' = Append(reqs,
                                       NewRequest(botMessageId, inputValue,
                                                  Len(messages) + 2))
            /\ UNCHANGED <<apiKey, apiKeyInput, isApiKeySet>>

----------------------------------------------------------------------------
(* The asynchronous body of handleSubmit, one request r *)

\* await model.generateContentStream(...) resolves (lines 92-96)
StreamResolve(r) ==
    /\ reqs[r].pc = "starting"
    /\ UNCHANGED mounted
    /\ reqs' = [reqs EXCEPT ![r].pc = "streaming", ![r].fullText = <<>>]
    /\ UNCHANGED <<messages, inputValue, isLoading, apiKey, apiKeyInput,
                   isApiKeySet, genAIRef, now>>

\* Variant: the turn writes the chunk instead of the accumulator.
StreamChunk_WritesChunkOnly(r, chunkText) ==
    /\ reqs[r].pc = "streaming"
    /\ UNCHANGED mounted
    /\ Delivered(reqs) < MaxChunks
    /\ reqs' = [reqs EXCEPT ![r].fullText = @ \o chunkText,
                            ![r].chunks = Append(@, chunkText)]
    /\ messages' = UpdateText(messages, reqs[r].botMessageId, chunkText)
    /\ UNCHANGED <<inputValue, isLoading, apiKey, apiKeyInput, isApiKeySet,
                   genAIRef, now>>

\* one turn of the for-await loop (lines 98-108)
StreamChunk(r, chunkText) ==
    /\ reqs[r].pc = "streaming"
    /\ UNCHANGED mounted
    /\ Delivered(reqs) < MaxChunks
    /\ LET fullText == reqs[r].fullText \o chunkText            \* line 100
       IN  /\ reqs' = [reqs EXCEPT ![r].fullText = fullText,
                                   ![r].chunks = Append(@, chunkText)]
           /\ messages' = UpdateText(messages, reqs[r].botMessageId, fullText)
    /\ UNCHANGED <<inputValue, isLoading, apiKey, apiKeyInput, isApiKeySet,
                   genAIRef, now>>

\* the stream is exhausted (lines 110-115, 131-133)
StreamEnd(r) ==
    /\ reqs[r].pc = "streaming"
    /\ UNCHANGED mounted
    /\ reqs' = [reqs EXCEPT ![r].pc = "done"]
    /\ messages' = MarkDone(messages, reqs[r].botMessageId)
    /\ isLoading' = FALSE
    /\ UNCHANGED <<inputValue, apiKey, apiKeyInput, isApiKeySet, genAIRef, now>>

\* Variant: the busy flag is reset on success only.
StreamFault_NoFinally(r) ==
    /\ reqs[r].pc \in {"starting", "streaming"}
    /\ UNCHANGED mounted
    /\ reqs' = [reqs EXCEPT ![r].pc = "failed"]
    /\ messages' = MarkError(messages, reqs[r].botMessageId)
    /\ UNCHANGED <<inputValue, isLoading, apiKey, apiKeyInput, isApiKeySet,
                   genAIRef, now>>

\* Variant: a fault sends the user back to the credential form.
StreamFault_ClearsKey(r) ==
    /\ reqs[r].pc \in {"starting", "streaming"}
    /\ UNCHANGED mounted
    /\ reqs' = [reqs EXCEPT ![r].pc = "failed"]
    /\ messages' = MarkError(messages, reqs[r].botMessageId)
    /\ isLoading' = FALSE
    /\ isApiKeySet' = FALSE
    /\ UNCHANGED <<inputValue, apiKey, apiKeyInput, genAIRef, now>>

\* the stream promise rejects, or pulling or reading a chunk throws
\* (lines 116-133)
StreamFault(r) ==
    /\ reqs[r].pc \in {"starting", "streaming"}
    /\ UNCHANGED mounted
    /\ reqs' = [reqs EXCEPT ![r].pc = "failed"]
    /\ messages' = MarkError(messages, reqs[r].botMessageId)
    /\ isLoading' = FALSE
    /\ UNCHANGED <<inputValue, apiKey, apiKeyInput, isApiKeySet, genAIRef, now>>

\* The parent removes the component.  Nothing of the component runs then:
\* its only effect returns no cleanup, so every state cell keeps its value.
\* The async body of handleSubmit holds no teardown flag: its setMessages
\* and setIsLoading calls go on, shown here as writes to the same cells.
Unmount ==
    /\ mounted
    /\ mounted' = FALSE
    /\ UNCHANGED <<messages, inputValue, isLoading, apiKey, apiKeyInput,
                   isApiKeySet, genAIRef, reqs, now>>

ProviderStep ==
    \E r \in 1..Len(reqs) :
        \/ StreamResolve(r)
        \/ \E c \in Fragments : StreamChunk(r, c)
        \/ StreamEnd(r)
        \/ StreamFault(r)

Next ==
    \/ \E v \in KeyValues : setApiKeyInput(v)
    \/ handleApiKeySubmit
    \/ \E v \in DraftValues : handleInputChange(v)
    \/ handleSubmit
    \/ \E r \in 1..Len(reqs) : StreamResolve(r)
    \/ \E r \in 1..Len(reqs) : \E c \in Fragments : StreamChunk(r, c)
    \/ \E r \in 1..Len(reqs) : StreamEnd(r)
    \/ \E r \in 1..Len(reqs) : StreamFault(r)
    \/ Unmount

Spec == Init /\ [][Next]_vars

\* A stream that is under way ends or faults.
StreamFinish == \E r \in 1..Len(reqs) : StreamEnd(r) \/ StreamFault(r)

\* The provider never leaves a stream open for ever.
LiveSpec == Spec /\ WF_vars(StreamFinish)

----------------------------------------------------------------------------
(* Vocabulary of the properties *)

\* The draft is empty or holds white space only.
Blank(s) == \A i \in 1..Len(s) : s[i] \in WhiteSpace

\* F1 + ... + Fn
RECURSIVE Concat(_)
Concat(fs) == IF fs = <<>> THEN <<>> ELSE Head(fs) \o Concat(Tail(fs))

Requests == 1..Len(reqs)

Active(r) == reqs[r].pc \in {"starting", "streaming"}

\* The placeholder request r appended.
Placeholder(msgs, r) == msgs[reqs[r].idx]

StreamingCount == Cardinality({i \in 1..Len(messages) : IsStreaming(messages[i])})

----------------------------------------------------------------------------
\* C1: a submit delivered while isLoading is true is a no-op, whatever the
\* draft holds: the transcript keeps its length and no request is issued.
C1_BusySubmitIsNoOp ==
    [][(isLoading /\ handleSubmit)
        => (Len(messages') = Len(messages) /\ reqs' = reqs)]_vars

\* C2: at most one message of the transcript has isStreaming = true.
C2_AtMostOneStreaming == StreamingCount <= 1

\* C3: once the stream of a request has ended normally, its placeholder shows
\* the concatenation of the fragments the stream yielded, in arrival order;
\* and the placeholder of a request still under way is still streaming.
C3_FinalTextIsConcatenation ==
    \A r \in Requests :
        /\ reqs[r].pc = "done"
              => Placeholder(messages, r).text = Concat(reqs[r].chunks)
        /\ Active(r) => IsStreaming(Placeholder(messages, r))

\* C4: a fault raised while the request starts or after k >= 0 fragments
\* leaves the placeholder with exactly the error text and not streaming.
C4_FaultOverwritesText ==
    [][\A r \in Requests :
          StreamFault(r)
            => /\ Placeholder(messages', r).text = ErrorText
               /\ ~IsStreaming(Placeholder(messages', r))]_vars

C4_Witness ==
    \E r \in Requests :
        /\ reqs[r].pc = "failed"
        /\ Concat(reqs[r].chunks) # <<>>
        /\ Placeholder(messages, r).text = ErrorText

\* C5: a credential submit whose client construction throws changes no state
\* of the controller: status, value, handle, transcript, draft, busy flag.
C5_FailedCredentialChangesNothing ==
    [][(handleApiKeySubmit /\ apiKeyInput \in InvalidKeys)
        => UNCHANGED <<isApiKeySet, apiKey, genAIRef, messages, inputValue,
                       isLoading>>]_vars

\* C6: after a credential submit whose client construction throws, the
\* credential status is still unset and the transcript is what it was.
C6_FailedCredentialStaysUnset ==
    [][(handleApiKeySubmit /\ apiKeyInput \in InvalidKeys)
        => (~isApiKeySet' /\ messages' = messages)]_vars

C6_Witness ==
    /\ ~isApiKeySet
    /\ apiKey \in InvalidKeys
    /\ apiKey # <<>>
    /\ ~genAIRef.set

\* C7: a submit with an empty or white-space-only draft leaves the transcript
\* and the busy flag as they were and issues no request.
C7_BlankSubmitIsNoOp ==
    [][(handleSubmit /\ Blank(inputValue))
        => (messages' = messages /\ isLoading' = isLoading /\ reqs' = reqs)]_vars

\* A white-space-only draft is in the form after an earlier exchange: the
\* submit delivered here returns at line 55 and leaves this state as it is.
C7_Witness ==
    /\ isApiKeySet
    /\ inputValue # <<>>
    /\ Blank(inputValue)
    /\ ~isLoading
    /\ Len(messages) > 1

\* C8: when the provider's stream always ends or faults, a busy session is
\* eventually not busy again: at every point of a behaviour a state with the
\* busy flag false lies ahead (the same as isLoading ~> ~isLoading).
C8_BusyEventuallyReset == []<>~isLoading

C8_Witness ==
    /\ ~isLoading
    /\ \E r \in Requests : reqs[r].pc = "done"
    /\ \E r \in Requests : reqs[r].pc = "failed"

\* C9: every step keeps the identifiers and senders of the transcript as a
\* prefix of the next transcript's.
C9_AppendOnly ==
    [][/\ Len(messages) <= Len(messages')
       /\ \A i \in 1..Len(messages) :
            /\ messages'[i].id = messages[i].id
            /\ messages'[i].sender = messages[i].sender]_vars

C9_Witness ==
    /\ Len(messages) >= 5
    /\ \E r \in Requests : reqs[r].pc = "done" /\ reqs[r].chunks # <<>>
    /\ \E r \in Requests : reqs[r].pc = "failed"

\* C10: a message that is not streaming is not streaming in the next state.
C10_StreamingNeverReturns ==
    [][\A i \in 1..Len(messages) :
          ~IsStreaming(messages[i]) => ~IsStreaming(messages'[i])]_vars

C10_Witness ==
    \E r, q \in Requests :
        /\ r < q
        /\ reqs[r].pc \in {"done", "failed"}
        /\ ~IsStreaming(Placeholder(messages, r))
        /\ reqs[q].chunks # <<>>
        /\ reqs[q].botMessageId = reqs[r].botMessageId

\* C11: once the component is torn down, no fragment, end or fault of a
\* stream writes the transcript or the busy flag.
C11_NoMutationAfterTeardown ==
    [][~mounted => (messages' = messages /\ isLoading' = isLoading)]_vars

\* C12: once the credential status is set it stays set.
C12_CredentialStaysSet == [][isApiKeySet => isApiKeySet']_vars

C12_Witness ==
    /\ isApiKeySet
    /\ \E r \in Requests : reqs[r].pc = "failed"
    /\ \E r \in Requests : reqs[r].pc = "done"

\* C13: a submit with a non-blank draft while not busy appends, at the end of
\* the transcript, a user message holding the draft and then an empty
\* streaming assistant placeholder; it clears the draft and sets the busy flag.
C13_AcceptedSubmitAppendsPair ==
    [][(handleSubmit /\ ~Blank(inputValue) /\ ~isLoading)
        => LET n == Len(messages)
           IN  /\ Len(messages') = n + 2
               /\ SubSeq(messages', 1, n) = messages
               /\ messages'[n + 1].sender = "user"
               /\ messages'[n + 1].text = inputValue
               /\ messages'[n + 2].sender = "bot"
               /\ messages'[n + 2].text = <<>>
               /\ IsStreaming(messages'[n + 2])
               /\ inputValue' = <<>>
               /\ isLoading']_vars

C13_Witness ==
    LET n == Len(messages)
    IN  /\ n >= 5
        /\ isLoading
        /\ inputValue = <<>>
        /\ messages[n - 1].sender = "user"
        /\ ~Blank(messages[n - 1].text)
        /\ messages[n].text = <<>>
        /\ IsStreaming(messages[n])
        /\ StreamingCount = 1

\* C14: the messages of the transcript have pairwise distinct identifiers.
C14_DistinctIds ==
    \A i, j \in 1..Len(messages) : i # j => messages[i].id # messages[j].id

\* C15: the step that applies the k-th fragment of a request leaves the
\* request's placeholder with the text F1 + ... + Fk.
C15_TextIsPrefixConcatenation ==
    [][\A r \in Requests :
          (\E c \in Fragments : StreamChunk(r, c))
            => Placeholder(messages', r).text = Concat(reqs'[r].chunks)]_vars

C15_Witness ==
    \E r \in Requests :
        /\ reqs[r].pc = "streaming"
        /\ Len(reqs[r].chunks) = 2
        /\ reqs[r].chunks[1] # reqs[r].chunks[2]
        /\ Placeholder(messages, r).text = reqs[r].chunks[1] \o reqs[r].chunks[2]
        /\ IsStreaming(Placeholder(messages, r))

\* C16: a fragment, end or fault of a request leaves every message other
\* than the request's own placeholder as it was.
C16_OnlyOwnPlaceholderChanges ==
    [][\A r \in Requests :
          (\/ \E c \in Fragments : StreamChunk(r, c)
           \/ StreamEnd(r)
           \/ StreamFault(r))
            => \A i \in 1..Len(messages) :
                  i # reqs[r].idx => messages'[i] = messages[i]]_vars

\* C17: whenever the credential status is set the ref holds a client, and a
\* message submit leaves the ref as it is.
C17_HandleOwnedByCredential ==
    [][/\ isApiKeySet' => genAIRef'.set
       /\ handleSubmit => genAIRef' = genAIRef]_vars

C17_Witness ==
    /\ isApiKeySet
    /\ genAIRef = NewClient(apiKey)
    /\ Len(reqs) = 2

\* C18: the busy flag is true exactly when some message is streaming.
C18_BusyIffStreaming == isLoading <=> (StreamingCount > 0)

\* C19: the transcript is the unmodified welcome message followed by pairs
\* of a user message and an assistant message.
C19_TranscriptShape ==
    /\ messages[1] = WelcomeMessage
    /\ Len(messages) % 2 = 1
    /\ \A i \in 2..Len(messages) :
          messages[i].sender = IF i % 2 = 0 THEN "user" ELSE "bot"

C19_Witness ==
    /\ Len(messages) = 5
    /\ messages[3].text # <<>>
    /\ messages[5].text = ErrorText

====
